---- MODULE Spec2Model ----
(***************************************************************************)
(* Model of csv_cleanup_ai_agent.py: the instruction parser and the        *)
(* cleaning pipeline of main() (standardize, fill-and-strip, normalize,    *)
(* filter, keep-complete, per-table dedup, concat, merged dedup, sort).    *)
(*                                                                         *)
(* A table (pandas DataFrame) is a record [cols, rows]: cols is the        *)
(* sequence of column labels, rows a sequence of rows, each row a sequence *)
(* of cells aligned with cols.  A cell is a string or NaN (a true-missing  *)
(* value of pandas).  Strings are handled character by character.          *)
(***************************************************************************)
EXTENDS Integers, Sequences, FiniteSets, TLC

(***************************************************************************)
(* Bounds of the model.                                                    *)
(***************************************************************************)
MaxFiles == 2
MaxRows == 2

(***************************************************************************)
(* Python str primitives.                                                  *)
(***************************************************************************)
NaN == "<NaN>"
None == "<None>"

ASCII == " !\"#$%&'()*+,-./0123456789:;<=>?@ABCDEFGHIJKLMNOPQRSTUVWXYZ[\\]^_abcdefghijklmnopqrstuvwxyz{|}~"
UPPER == "ABCDEFGHIJKLMNOPQRSTUVWXYZ"
LOWER == "abcdefghijklmnopqrstuvwxyz"
DIGITS == "0123456789"
WHITESPACE == {" ", "\t", "\n", "\r"}

Char(s, i) == SubSeq(s, i, i)

From(s, i) == SubSeq(s, i, Len(s))

\* 0 when c does not occur in s, else the first position of c
IndexOf(c, s) ==
  IF \E i \in 1..Len(s) : Char(s, i) = c
  THEN CHOOSE i \in 1..Len(s) : Char(s, i) = c /\ \A j \in 1..(i - 1) : Char(s, j) # c
  ELSE 0

\* rank of a character in code point order (ASCII lists the printable characters
\* in that order; control characters, rank 0, come before all of them)
Ord(c) == IndexOf(c, ASCII)

LowerChar(c) ==
  LET i == IndexOf(c, UPPER) IN IF i = 0 THEN c ELSE Char(LOWER, i)

RECURSIVE lower(_)
lower(s) == IF Len(s) = 0 THEN s ELSE LowerChar(Char(s, 1)) \o lower(From(s, 2))

RECURSIVE lstrip(_)
lstrip(s) ==
  IF Len(s) = 0 THEN s
  ELSE IF Char(s, 1) \in WHITESPACE THEN lstrip(From(s, 2)) ELSE s

RECURSIVE rstrip(_)
rstrip(s) ==
  IF Len(s) = 0 THEN s
  ELSE IF Char(s, Len(s)) \in WHITESPACE THEN rstrip(SubSeq(s, 1, Len(s) - 1)) ELSE s

strip(s) == rstrip(lstrip(s))

StartsWithAt(s, i, p) == i + Len(p) - 1 <= Len(s) /\ SubSeq(s, i, i + Len(p) - 1) = p

\* p in s
Contains(s, p) == \E i \in 1..(Len(s) + 1) : StartsWithAt(s, i, p)

\* s.replace(old, new): every non-overlapping occurrence, left to right
RECURSIVE replace(_, _, _)
replace(s, old, new) ==
  IF Len(s) = 0 THEN s
  ELSE IF StartsWithAt(s, 1, old) THEN new \o replace(From(s, Len(old) + 1), old, new)
  ELSE Char(s, 1) \o replace(From(s, 2), old, new)

\* str < str of Python: lexicographic on code points
RECURSIVE StrLess(_, _)
StrLess(a, b) ==
  IF Len(b) = 0 THEN FALSE
  ELSE IF Len(a) = 0 THEN TRUE
  ELSE IF Char(a, 1) = Char(b, 1) THEN StrLess(From(a, 2), From(b, 2))
  ELSE Ord(Char(a, 1)) < Ord(Char(b, 1))

(***************************************************************************)
(* Utility functions.                                                      *)
(***************************************************************************)
\* PHONE_CHARS_REMOVE.sub("", num): keep the digits
RECURSIVE PHONE_CHARS_REMOVE(_)
PHONE_CHARS_REMOVE(s) ==
  IF Len(s) = 0 THEN s
  ELSE (IF IndexOf(Char(s, 1), DIGITS) # 0 THEN Char(s, 1) ELSE "")
       \o PHONE_CHARS_REMOVE(From(s, 2))

clean_header(header) == replace(replace(lower(strip(header)), " ", "_"), "-", "_")

RECURSIVE SubAll(_, _, _)
\* re.sub of "@(a|b|c)\." by new: the alternatives cannot overlap
SubAll(s, olds, new) ==
  IF Len(olds) = 0 THEN s ELSE SubAll(replace(s, Head(olds), new), Tail(olds), new)

normalize_email(email) ==
  IF email = NaN \/ strip(email) = "" \/ lower(email) = "nan" THEN "N/A"
  ELSE LET e0 == lower(strip(email))
           e1 == SubAll(e0, <<"@gamil.", "@gnail.", "@gmial.">>, "@gmail.")
           e2 == SubAll(e1, <<"@yahooo.", "@yaho.">>, "@yahoo.")
       IN SubAll(e2, <<"@hotnail.", "@hotmial.">>, "@hotmail.")

normalize_phone_number(num) ==
  IF num = NaN \/ strip(num) = "" \/ lower(num) = "nan" THEN "N/A"
  ELSE LET digits == PHONE_CHARS_REMOVE(num) IN
       IF Len(digits) = 10
       THEN "(" \o SubSeq(digits, 1, 3) \o ") " \o SubSeq(digits, 4, 6) \o "-" \o From(digits, 7)
       ELSE IF digits # "" THEN digits ELSE "N/A"

column_mapping ==
  ("name" :> "name") @@ ("full_name" :> "name") @@ ("customer_name" :> "name") @@
  ("first_name" :> "name") @@
  ("email" :> "email") @@ ("email_address" :> "email") @@ ("e_mail" :> "email") @@
  ("e-mail" :> "email") @@
  ("age" :> "age") @@ ("years_old" :> "age") @@ ("age_range" :> "age") @@ ("years" :> "age") @@
  ("phone" :> "phone") @@ ("phone_number" :> "phone") @@ ("contact" :> "phone") @@
  ("tel" :> "phone") @@ ("telephone" :> "phone") @@
  ("notes" :> "notes")

(***************************************************************************)
(* DataFrame primitives.                                                   *)
(***************************************************************************)
HasCol(df, c) == \E i \in 1..Len(df.cols) : df.cols[i] = c

\* position of the (first) column labelled c
ColIdx(df, c) == CHOOSE i \in 1..Len(df.cols) :
                   df.cols[i] = c /\ \A j \in 1..(i - 1) : df.cols[j] # c

Cell(df, r, c) == df.rows[r][ColIdx(df, c)]

\* df.columns has a repeated label
DuplicateLabels(df) ==
  \E i, j \in 1..Len(df.cols) : i < j /\ df.cols[i] = df.cols[j]

\* df[mask]: the rows r with keep[r], in order
RECURSIVE SelectRows(_, _)
SelectRows(rows, keep) ==
  IF Len(rows) = 0 THEN <<>>
  ELSE (IF keep[1] THEN <<rows[1]>> ELSE <<>>)
       \o SelectRows(Tail(rows), [r \in 1..(Len(rows) - 1) |-> keep[r + 1]])

BoolMask(df, keep) ==
  [df EXCEPT !.rows = SelectRows(df.rows, [r \in 1..Len(df.rows) |-> keep[r]])]

\* the key of row r under the column positions idx
Key(row, idx) == [n \in 1..Len(idx) |-> row[idx[n]]]

\* drop_duplicates with keep="last"
drop_duplicates_last(df, idx) ==
  BoolMask(df, [r \in 1..Len(df.rows) |->
                 \A q \in (r + 1)..Len(df.rows) :
                   Key(df.rows[q], idx) # Key(df.rows[r], idx)])

\* drop_duplicates that stops after the first duplicate it removes
drop_duplicates_once(df, idx) ==
  LET dup(r) == \E q \in 1..(r - 1) : Key(df.rows[q], idx) = Key(df.rows[r], idx)
  IN BoolMask(df, [r \in 1..Len(df.rows) |->
                    ~(dup(r) /\ \A q \in 1..(r - 1) : ~dup(q))])

\* df.drop_duplicates(subset, keep="first"); idx are the positions of the subset
drop_duplicates(df, idx) ==
  BoolMask(df, [r \in 1..Len(df.rows) |->
                 \A q \in 1..(r - 1) : Key(df.rows[q], idx) # Key(df.rows[r], idx)])

AllIdx(df) == [n \in 1..Len(df.cols) |-> n]

standardize_columns(df) ==
  [df EXCEPT !.cols = [n \in 1..Len(df.cols) |->
     LET clean_col == clean_header(df.cols[n]) IN
     IF clean_col \in DOMAIN column_mapping THEN column_mapping[clean_col] ELSE clean_col]]

\* one cell of fill_and_strip: fillna, astype(str).str.strip(), replace nan/None
FillCell(x, fill_value) ==
  LET filled == IF x = NaN THEN fill_value ELSE x
      stripped == strip(filled)
  IN IF stripped \in {"nan", "None"} THEN fill_value ELSE stripped

\* df[col] of a repeated label is a DataFrame, which has no .str accessor
fill_and_strip_raises(df) == DuplicateLabels(df)

fill_and_strip(df, fill_value) ==
  [df EXCEPT !.rows = [r \in 1..Len(df.rows) |->
                        [n \in 1..Len(df.cols) |-> FillCell(df.rows[r][n], fill_value)]]]

apply_normalizations(df, normalize_email_flag, normalize_phone_flag) ==
  LET f(col, x) ==
        IF normalize_email_flag /\ col = "email" THEN normalize_email(x)
        ELSE IF normalize_phone_flag /\ col = "phone" THEN normalize_phone_number(x)
        ELSE x
  IN [df EXCEPT !.rows = [r \in 1..Len(df.rows) |->
                           [n \in 1..Len(df.cols) |-> f(df.cols[n], df.rows[r][n])]]]

Idx(df, names) == [n \in 1..Len(names) |-> ColIdx(df, names[n])]

HasAll(df, names) == \A n \in 1..Len(names) : HasCol(df, names[n])

\* deduplicate whose final else returns df as it is
deduplicate_skip(df, strategy) ==
  IF strategy = "email" /\ HasCol(df, "email")
    THEN drop_duplicates(df, Idx(df, <<"email">>))
  ELSE IF strategy = "phone" /\ HasCol(df, "phone")
    THEN drop_duplicates(df, Idx(df, <<"phone">>))
  ELSE IF strategy = "name_email" /\ HasAll(df, <<"name", "email">>)
    THEN drop_duplicates(df, Idx(df, <<"name", "email">>))
  ELSE IF strategy = "name_phone" /\ HasAll(df, <<"name", "phone">>)
    THEN drop_duplicates(df, Idx(df, <<"name", "phone">>))
  ELSE IF strategy = "all_columns" THEN drop_duplicates(df, AllIdx(df))
  ELSE df

deduplicate(df, strategy) ==
  IF strategy = "email" /\ HasCol(df, "email")
    THEN drop_duplicates(df, Idx(df, <<"email">>))
  ELSE IF strategy = "phone" /\ HasCol(df, "phone")
    THEN drop_duplicates(df, Idx(df, <<"phone">>))
  ELSE IF strategy = "name_email" /\ HasAll(df, <<"name", "email">>)
    THEN drop_duplicates(df, Idx(df, <<"name", "email">>))
  ELSE IF strategy = "name_phone" /\ HasAll(df, <<"name", "phone">>)
    THEN drop_duplicates(df, Idx(df, <<"name", "phone">>))
  ELSE drop_duplicates(df, AllIdx(df))

(***************************************************************************)
(* Enhanced natural language parser.                                       *)
(***************************************************************************)
DefaultParams ==
  [fill_empty_with |-> "N/A", sort_by |-> None, filter_empty |-> <<>>,
   normalize_phone |-> TRUE, normalize_email |-> TRUE,
   keep_only_complete_rows |-> FALSE, dedup_strategy |-> "email"]

\* the literal heads of r"fill (?:missing|empty)(?: values)? with "
FillHeads ==
  {"fill missing with ", "fill empty with ",
   "fill missing values with ", "fill empty values with "}

\* the characters [^\n,] may not match
FillStop == {"\n", ","}

\* the regex matches at position i: a head, then at least one character of [^\n,]
FillMatchAt(t, i) ==
  \E h \in FillHeads :
    StartsWithAt(t, i, h) /\ i + Len(h) <= Len(t) /\ Char(t, i + Len(h)) \notin FillStop

\* the longest prefix of s made of characters of [^\n,]
RECURSIVE TakeGroup(_)
TakeGroup(s) ==
  IF Len(s) = 0 \/ Char(s, 1) \in FillStop THEN ""
  ELSE Char(s, 1) \o TakeGroup(From(s, 2))

\* re.search(...).group(1) of the leftmost match, None without a match
fill_match(t) ==
  IF \E i \in 1..Len(t) : FillMatchAt(t, i)
  THEN LET i == CHOOSE i \in 1..Len(t) :
                  FillMatchAt(t, i) /\ \A j \in 1..(i - 1) : ~FillMatchAt(t, j)
           h == CHOOSE h \in FillHeads : StartsWithAt(t, i, h)
       IN TakeGroup(From(t, i + Len(h)))
  ELSE None

AnyIn(t, phrases) == \E p \in phrases : Contains(t, p)

ParseFill(t) ==
  IF fill_match(t) # None THEN strip(fill_match(t))
  ELSE IF Contains(t, "fill missing with unknown") THEN "Unknown"
  ELSE IF Contains(t, "fill missing with blank") \/ Contains(t, "leave empty") THEN ""
  ELSE DefaultParams.fill_empty_with

ParseSort(t) ==
  IF AnyIn(t, {"sort by age", "order by age"}) THEN "age"
  ELSE IF AnyIn(t, {"sort by name", "order by name", "alphabetical"}) THEN "name"
  ELSE DefaultParams.sort_by

ParseFilter(t) ==
  (IF AnyIn(t, {"remove rows where email is empty", "delete empty emails"})
     THEN <<"email">> ELSE <<>>)
  \o (IF AnyIn(t, {"remove rows where phone is empty", "delete empty phones"})
     THEN <<"phone">> ELSE <<>>)
  \o (IF AnyIn(t, {"remove rows where name is empty", "delete empty names"})
     THEN <<"name">> ELSE <<>>)

ParseComplete(t) ==
  AnyIn(t, {"only complete rows", "complete data only", "no empty fields", "no missing data"})

ParseDedup(t) ==
  IF AnyIn(t, {"dedup by phone", "dedupe by phone", "remove duplicate phones"}) THEN "phone"
  ELSE IF AnyIn(t, {"dedup by name and email", "dedupe by name and email",
                    "remove duplicates by name+email"}) THEN "name_email"
  ELSE IF AnyIn(t, {"dedup by name and phone", "dedupe by name and phone",
                    "remove duplicates by name+phone"}) THEN "name_phone"
  ELSE IF AnyIn(t, {"remove all duplicates", "dedup everything"}) THEN "all_columns"
  ELSE DefaultParams.dedup_strategy

parse_instructions(text) ==
  IF text = "" THEN DefaultParams
  ELSE LET t == lower(text) IN
       [DefaultParams EXCEPT
          !.fill_empty_with = ParseFill(t),
          !.sort_by = ParseSort(t),
          !.filter_empty = ParseFilter(t),
          !.keep_only_complete_rows = ParseComplete(t),
          !.dedup_strategy = ParseDedup(t)]

(***************************************************************************)
(* Steps of main().                                                        *)
(***************************************************************************)
\* one column of the filter_empty loop
FilterCol(df, col) ==
  IF HasCol(df, col)
  THEN BoolMask(df, [r \in 1..Len(df.rows) |->
                      strip(Cell(df, r, col)) # "" /\ Cell(df, r, col) # "N/A"])
  ELSE df

RECURSIVE FilterEmpty(_, _)
FilterEmpty(df, filter_empty) ==
  IF Len(filter_empty) = 0 THEN df
  ELSE FilterEmpty(FilterCol(df, Head(filter_empty)), Tail(filter_empty))

\* the lambda of mask_complete evaluates `x != "N/A" and ...` on a row Series:
\* the truth value of a Series raises ValueError.  DataFrame.apply calls the
\* lambda once per row, and swallows the exception only for an empty frame.
mask_complete_raises(df) == Len(df.rows) > 0 /\ Len(df.cols) > 0

\* labels of the frames in order of first appearance
RECURSIVE UnionCols(_)
UnionCols(dfs) ==
  IF Len(dfs) = 0 THEN <<>>
  ELSE LET before == UnionCols(SubSeq(dfs, 1, Len(dfs) - 1))
           last == dfs[Len(dfs)]
       IN before \o SelectRows(last.cols,
                     [n \in 1..Len(last.cols) |->
                        \A m \in 1..Len(before) : before[m] # last.cols[n]])

RECURSIVE ConcatRows(_, _)
ConcatRows(dfs, cols) ==
  IF Len(dfs) = 0 THEN <<>>
  ELSE [r \in 1..Len(Head(dfs).rows) |->
          [n \in 1..Len(cols) |->
             IF HasCol(Head(dfs), cols[n]) THEN Cell(Head(dfs), r, cols[n]) ELSE NaN]]
       \o ConcatRows(Tail(dfs), cols)

\* pd.concat(dfs, ignore_index=True): outer join of the columns
concat(dfs) == [cols |-> UnionCols(dfs), rows |-> ConcatRows(dfs, UnionCols(dfs))]

\* the orders an ascending sort of the rows S by key can produce; the default
\* kind "quicksort" is not stable, so rows with equal keys come in any order
RECURSIVE Ascending(_, _)
Ascending(S, key) ==
  IF S = {} THEN {<<>>}
  ELSE UNION {{<<m>> \o rest : rest \in Ascending(S \ {m}, key)} :
              m \in {x \in S : \A y \in S : ~StrLess(key[y], key[x])}}

\* the row orders of df.sort_values(by=col, na_position="last"): NaN rows are
\* set aside and appended in their original order
sort_values(df, col) ==
  LET key == [r \in 1..Len(df.rows) |-> Cell(df, r, col)]
      isna == [r \in 1..Len(df.rows) |-> key[r] = NaN]
      nans == SelectRows([r \in 1..Len(df.rows) |-> r], isna)
  IN {order \o nans : order \in Ascending({r \in 1..Len(df.rows) : ~isna[r]}, key)}

Reorder(df, order) == [df EXCEPT !.rows = [n \in 1..Len(order) |-> df.rows[order[n]]]]

RECURSIVE SumLen(_)
SumLen(dfs) == IF Len(dfs) = 0 THEN 0 ELSE Len(Head(dfs).rows) + SumLen(Tail(dfs))

(***************************************************************************)
(* Inputs: the instruction texts and the uploaded tables, as read_csv      *)
(* returns them: a string or NaN per cell, and never one of the strings    *)
(* read_csv reads as NaN ("", "N/A", "n/a", "nan", "None", ...).           *)
(***************************************************************************)
Instructions ==
  {"",
   "Remove duplicate phones and fill empty with blank",
   "fill missing with unknown, remove rows where name is empty",
   "Only complete rows with no missing data",
   "Clean everything and sort alphabetically",
   "Sort by age and remove rows where email is empty",
   "dedup by name and email, leave empty",
   "Remove all duplicates, delete empty phones, order by age",
   "Dedupe by name and phone and delete empty names"}

Take(rows) == SubSeq(rows, 1, IF Len(rows) < MaxRows THEN Len(rows) ELSE MaxRows)

Tables ==
  {[cols |-> <<"Full Name", "Email">>,
    rows |-> Take(<< <<"Bob", "BOB@GAMIL.COM">>, <<NaN, "x@yaho.com">>,
                     <<"amy", " Bob@Gmail.com">> >>)],
   [cols |-> <<"customer_name", "E-mail">>,
    rows |-> Take(<< <<"Zed", NaN>>, <<"  ", "bob@gmail.com">>, <<"Zed", " nan ">> >>)],
   [cols |-> <<"name", "Phone Number", "notes">>,
    rows |-> Take(<< <<"Ann", "555-123-4567", " ">>, <<"Ann", "(555) 123 4567", "vip">>,
                     <<NaN, "ext.", NaN>> >>)],
   [cols |-> <<"Name", "Age">>,
    rows |-> Take(<< <<"Al", "9">>, <<"Al", "9">>, <<"Al", "30">> >>)],
   [cols |-> <<"Name", "e_mail", "tel", "Years">>,
    rows |-> Take(<< <<"Bob", "bob@gmail.com", "5551234567", "41">>,
                     <<"bob", "BOB@gmail.com", "555.123.4567", NaN>>,
                     <<NaN, NaN, "12", "7">> >>)],
   [cols |-> <<"Full Name", "first_name">>,
    rows |-> Take(<< <<"Bo", "Bo">> >>)],
   [cols |-> <<"email">>, rows |-> <<>>]}

RECURSIVE FileLists(_)
FileLists(n) ==
  IF n = 0 THEN {<<>>}
  ELSE FileLists(n - 1)
       \cup {Append(fs, f) : fs \in {l \in FileLists(n - 1) : Len(l) = n - 1}, f \in Tables}

NoFrame == [cols |-> <<>>, rows |-> <<>>]

VARIABLES
  nl_instruction,   \* the text area
  uploaded_files,   \* the uploaded tables, as read
  pc,               \* position in main()
  params,           \* parse_instructions(nl_instruction)
  total_original,   \* rows read
  k,                \* index of the table in the cleaning loop
  pre,              \* the table before the last step
  df,               \* the table after the last step
  processed_dfs,    \* the cleaned tables
  merged_df,        \* the merged table
  exception         \* the exception that ended the run, None while there is none

vars == <<nl_instruction, uploaded_files, pc, params, total_original, k, pre, df,
          processed_dfs, merged_df, exception>>

Init ==
  /\ nl_instruction \in Instructions
  /\ uploaded_files \in FileLists(MaxFiles)
  /\ pc = "button"
  /\ params = DefaultParams
  /\ total_original = 0
  /\ k = 0
  /\ pre = NoFrame
  /\ df = NoFrame
  /\ processed_dfs = <<>>
  /\ merged_df = NoFrame
  /\ exception = None

\* "Please upload at least one CSV file first!"
NoFiles ==
  /\ pc = "button" /\ uploaded_files = <<>>
  /\ pc' = "rejected"
  /\ UNCHANGED <<nl_instruction, uploaded_files, params, total_original, k, pre, df,
                 processed_dfs, merged_df, exception>>

Parse ==
  /\ pc = "button" /\ uploaded_files # <<>>
  /\ params' = parse_instructions(nl_instruction)
  /\ pc' = "read"
  /\ UNCHANGED <<nl_instruction, uploaded_files, total_original, k, pre, df,
                 processed_dfs, merged_df, exception>>

\* total_original = len(df) in place of total_original += len(df)
TotalOriginalLast(dataframes) == Len(dataframes[Len(dataframes)].rows)

TotalOriginal(dataframes) == SumLen(dataframes)

ReadFiles ==
  /\ pc = "read"
  /\ total_original' = TotalOriginal(uploaded_files)
  /\ k' = 1
  /\ pc' = "standardize"
  /\ UNCHANGED <<nl_instruction, uploaded_files, params, pre, df, processed_dfs,
                 merged_df, exception>>

Standardize ==
  /\ pc = "standardize"
  /\ pre' = uploaded_files[k]
  /\ df' = standardize_columns(uploaded_files[k])
  /\ pc' = "fill"
  /\ UNCHANGED <<nl_instruction, uploaded_files, params, total_original, k,
                 processed_dfs, merged_df, exception>>

FillAndStrip ==
  /\ pc = "fill"
  /\ pre' = df
  /\ IF fill_and_strip_raises(df)
     THEN pc' = "error" /\ df' = df /\ exception' = "AttributeError"
     ELSE /\ pc' = "normalize" /\ df' = fill_and_strip(df, params.fill_empty_with)
          /\ exception' = exception
  /\ UNCHANGED <<nl_instruction, uploaded_files, params, total_original, k,
                 processed_dfs, merged_df>>

Normalize ==
  /\ pc = "normalize"
  /\ pre' = df
  /\ df' = apply_normalizations(df, params.normalize_email, params.normalize_phone)
  /\ pc' = "filter"
  /\ UNCHANGED <<nl_instruction, uploaded_files, params, total_original, k,
                 processed_dfs, merged_df, exception>>

Filter ==
  /\ pc = "filter"
  /\ pre' = df
  /\ df' = FilterEmpty(df, params.filter_empty)
  /\ pc' = "complete"
  /\ UNCHANGED <<nl_instruction, uploaded_files, params, total_original, k,
                 processed_dfs, merged_df, exception>>

KeepComplete ==
  /\ pc = "complete"
  /\ pre' = df
  /\ df' = df
  /\ IF params.keep_only_complete_rows /\ mask_complete_raises(df)
     THEN pc' = "error" /\ exception' = "ValueError"
     ELSE pc' = "dedup" /\ exception' = exception
  /\ UNCHANGED <<nl_instruction, uploaded_files, params, total_original, k,
                 processed_dfs, merged_df>>

Dedup ==
  /\ pc = "dedup"
  /\ pre' = df
  /\ df' = deduplicate(df, params.dedup_strategy)
  /\ processed_dfs' = Append(processed_dfs, df')
  /\ IF k < Len(uploaded_files)
     THEN k' = k + 1 /\ pc' = "standardize"
     ELSE k' = k /\ pc' = "concat"
  /\ UNCHANGED <<nl_instruction, uploaded_files, params, total_original, merged_df,
                 exception>>

Concat ==
  /\ pc = "concat"
  /\ merged_df' = concat(processed_dfs)
  /\ pc' = "merged_dedup"
  /\ UNCHANGED <<nl_instruction, uploaded_files, params, total_original, k, pre, df,
                 processed_dfs, exception>>

MergedDedup ==
  /\ pc = "merged_dedup"
  /\ pre' = merged_df
  /\ merged_df' = deduplicate(merged_df, params.dedup_strategy)
  /\ pc' = "sort"
  /\ UNCHANGED <<nl_instruction, uploaded_files, params, total_original, k, df,
                 processed_dfs, exception>>

Sort ==
  /\ pc = "sort"
  /\ pre' = merged_df
  /\ IF params.sort_by # None /\ HasCol(merged_df, params.sort_by)
     THEN \E order \in sort_values(merged_df, params.sort_by) :
            merged_df' = Reorder(merged_df, order)
     ELSE merged_df' = merged_df
  /\ pc' = "done"
  /\ UNCHANGED <<nl_instruction, uploaded_files, params, total_original, k, df,
                 processed_dfs, exception>>

Next ==
  \/ NoFiles
  \/ Parse
  \/ ReadFiles
  \/ Standardize
  \/ FillAndStrip
  \/ Normalize
  \/ Filter
  \/ KeepComplete
  \/ Dedup
  \/ Concat
  \/ MergedDedup
  \/ Sort

Spec == Init /\ [][Next]_vars

(***************************************************************************)
(* Properties.                                                             *)
(***************************************************************************)
Strategies == {"email", "phone", "name_email", "name_phone", "all_columns"}

KeyCols(strategy) ==
  CASE strategy = "email" -> <<"email">>
    [] strategy = "phone" -> <<"phone">>
    [] strategy = "name_email" -> <<"name", "email">>
    [] strategy = "name_phone" -> <<"name", "phone">>
    [] OTHER -> <<>>

Keyed(strategy) == strategy \in {"email", "phone", "name_email", "name_phone"}

LacksKey(t, strategy) == Keyed(strategy) /\ ~HasAll(t, KeyCols(strategy))

\* the state right after the per-table deduplicate: pre is its argument, df its result
AfterTableDedup ==
  \/ pc = "concat"
  \/ pc = "standardize" /\ k > 1

\* the state right after the merged deduplicate: pre is its argument, merged_df its result
AfterMergedDedup == pc = "sort"

\* rows of t that equal no earlier row of t, in order
FirstOfEachRow(t) ==
  SelectRows(t.rows, [r \in 1..Len(t.rows) |-> \A q \in 1..(r - 1) : t.rows[q] # t.rows[r]])

\* C1 as claimed: deduplicate with a keyed strategy on a table that lacks a key
\* column returns the table unchanged, identical rows included.
C1_Unchanged ==
  /\ (AfterTableDedup /\ LacksKey(pre, params.dedup_strategy)) => df = pre
  /\ (AfterMergedDedup /\ LacksKey(pre, params.dedup_strategy)) => merged_df = pre

\* C1 amended: deduplicate with a keyed strategy on a table that lacks a key
\* column keeps the columns and returns exactly the rows that equal no earlier
\* row in every column, in their order (exact full-row duplicates are removed).
C1_FullRowFallback ==
  /\ (AfterTableDedup /\ LacksKey(pre, params.dedup_strategy)) =>
       df.cols = pre.cols /\ df.rows = FirstOfEachRow(pre)
  /\ (AfterMergedDedup /\ LacksKey(pre, params.dedup_strategy)) =>
       merged_df.cols = pre.cols /\ merged_df.rows = FirstOfEachRow(pre)

C1_Witness ==
  /\ AfterTableDedup /\ LacksKey(pre, params.dedup_strategy)
  /\ Len(df.rows) < Len(pre.rows)

Parsed == pc \notin {"button", "rejected"}

\* C2: an instruction containing "fill missing with blank" or "fill empty with
\* blank" parses to the empty string as fill value, and "Remove duplicate phones
\* and fill empty with blank" parses to dedup_strategy phone with fill value "".
C2_BlankIsEmpty ==
  Parsed =>
    /\ AnyIn(lower(nl_instruction), {"fill missing with blank", "fill empty with blank"})
         => params.fill_empty_with = ""
    /\ nl_instruction = "Remove duplicate phones and fill empty with blank"
         => params.dedup_strategy = "phone" /\ params.fill_empty_with = ""

PerTableSteps == {"fill", "normalize", "filter", "complete", "dedup"}

\* C3: no step increases the row count, the merged table has at most as many
\* rows as the input tables together, and rows removed is never negative.
C3_NeverMoreRows ==
  /\ (pc \in PerTableSteps \/ AfterTableDedup) => Len(df.rows) <= Len(pre.rows)
  /\ pc \in {"merged_dedup", "sort", "done"} =>
       /\ SumLen(processed_dfs) <= SumLen(uploaded_files)
       /\ Len(merged_df.rows) <= SumLen(processed_dfs)
  /\ pc \in {"sort", "done"} => Len(merged_df.rows) <= Len(pre.rows)
  /\ pc = "done" =>
       /\ Len(merged_df.rows) <= SumLen(uploaded_files)
       /\ total_original - Len(merged_df.rows) >= 0

C3_Witness ==
  /\ pc = "done" /\ Len(uploaded_files) > 1
  /\ Len(merged_df.rows) > 0
  /\ total_original - Len(merged_df.rows) > 0

\* position in t of the row equal to row (the rows of a deduplicated table differ)
RowPos(t, row) == CHOOSE q \in 1..Len(t.rows) : t.rows[q] = row

\* C4: with the sort key set and its column in the merged table, the final table
\* is ascending by that column, every row whose value is "N/A" or missing comes
\* after every row with a real value, and equal values keep their order.
C4_SortedSentinelLast ==
  (pc = "done" /\ params.sort_by # None /\ HasCol(merged_df, params.sort_by)) =>
    LET key(r) == Cell(merged_df, r, params.sort_by)
        real(r) == key(r) \notin {"N/A", NaN}
    IN \A i, j \in 1..Len(merged_df.rows) :
         i < j =>
           /\ (real(i) /\ real(j)) => ~StrLess(key(j), key(i))
           /\ real(j) => real(i)
           /\ key(i) = key(j) =>
                RowPos(pre, merged_df.rows[i]) < RowPos(pre, merged_df.rows[j])

\* C5: after fill-and-strip and normalization with a fill value other than "",
\* no cell of the table is the empty string.
C5_NoEmptyCell ==
  (pc = "filter" /\ params.fill_empty_with # "") =>
    \A r \in 1..Len(df.rows) : \A n \in 1..Len(df.cols) : df.rows[r][n] # ""

Complete(row) == \A n \in 1..Len(row) : row[n] # "N/A" /\ strip(row[n]) # ""

\* C6: with keep_only_complete_rows the step ends without error for every table
\* and keeps exactly the rows with no "N/A" and no empty string in any column.
C6_KeepsCompleteRows ==
  params.keep_only_complete_rows =>
    /\ exception # "ValueError"
    /\ pc = "dedup" =>
         df.rows = SelectRows(pre.rows, [r \in 1..Len(pre.rows) |-> Complete(pre.rows[r])])

\* C7: after the row filter, in every column of filter_empty the table has, no
\* surviving row holds the empty string, "N/A" or the configured fill value.
C7_FilterDropsSentinel ==
  pc = "complete" =>
    \A n \in 1..Len(params.filter_empty) :
      HasCol(df, params.filter_empty[n]) =>
        \A r \in 1..Len(df.rows) :
          Cell(df, r, params.filter_empty[n]) \notin {"", "N/A", params.fill_empty_with}

KeyOf(t, r, strategy) == Key(t.rows[r], Idx(t, KeyCols(strategy)))

KeyInEveryTable ==
  /\ Keyed(params.dedup_strategy)
  /\ \A f \in 1..Len(processed_dfs) : HasAll(processed_dfs[f], KeyCols(params.dedup_strategy))

\* C8: with the key columns in every table, after the merged deduplicate no two
\* rows have equal keys ("N/A" keys included), every key of the concatenation
\* is kept, each surviving row is the earliest row with its key in the
\* concatenation, and the concatenation lists the processed tables in input
\* order and row order.
C8_FirstOccurrenceWins ==
  (AfterMergedDedup /\ KeyInEveryTable) =>
    LET s == params.dedup_strategy IN
    /\ \A i, j \in 1..Len(merged_df.rows) :
         i < j => KeyOf(merged_df, i, s) # KeyOf(merged_df, j, s)
    /\ \A q \in 1..Len(pre.rows) :
         \E i \in 1..Len(merged_df.rows) : KeyOf(merged_df, i, s) = KeyOf(pre, q, s)
    /\ \A i \in 1..Len(merged_df.rows) :
         \E q \in 1..Len(pre.rows) :
           /\ pre.rows[q] = merged_df.rows[i]
           /\ \A e \in 1..(q - 1) : KeyOf(pre, e, s) # KeyOf(pre, q, s)
    /\ \A i, j \in 1..Len(merged_df.rows) :
         i < j =>
           (CHOOSE q \in 1..Len(pre.rows) : KeyOf(pre, q, s) = KeyOf(merged_df, i, s)
                                            /\ \A e \in 1..(q - 1) : KeyOf(pre, e, s) # KeyOf(pre, q, s))
           < (CHOOSE q \in 1..Len(pre.rows) : KeyOf(pre, q, s) = KeyOf(merged_df, j, s)
                                            /\ \A e \in 1..(q - 1) : KeyOf(pre, e, s) # KeyOf(pre, q, s))
    /\ Len(pre.rows) = SumLen(processed_dfs)
    /\ \A f \in 1..Len(processed_dfs) :
         \A r \in 1..Len(processed_dfs[f].rows) :
           KeyOf(pre, SumLen(SubSeq(processed_dfs, 1, f - 1)) + r, s)
             = KeyOf(processed_dfs[f], r, s)

C8_Witness ==
  /\ AfterMergedDedup /\ KeyInEveryTable
  /\ Len(uploaded_files) > 1
  /\ Len(merged_df.rows) < Len(pre.rows)
  /\ \E i \in 1..Len(merged_df.rows) :
       \E n \in 1..Len(KeyCols(params.dedup_strategy)) :
         KeyOf(merged_df, i, params.dedup_strategy)[n] = "N/A"

\* C9: deduplicate is idempotent: for every strategy, deduplicating the result of
\* deduplicate again returns the same rows in the same order.
C9_Idempotent ==
  \A t \in {pre, df, merged_df} :
    ~DuplicateLabels(t) =>
      \A s \in Strategies :
        deduplicate(deduplicate(t, s), s) = deduplicate(t, s)

C9_Witness ==
  /\ AfterMergedDedup
  /\ \E s \in Strategies :
       /\ Len(deduplicate(pre, s).rows) < Len(pre.rows)
       /\ Len(deduplicate(pre, s).rows) > 1

\* C10: every cell of the final merged table is a resolved string, never a
\* true-missing value, and the merged deduplicate drops no row whose key holds a
\* true-missing value.
C10_NoMissingCell ==
  /\ pc = "done" =>
       \A r \in 1..Len(merged_df.rows) : \A n \in 1..Len(merged_df.cols) :
         merged_df.rows[r][n] # NaN
  /\ (AfterMergedDedup /\ Keyed(params.dedup_strategy)
        /\ HasAll(pre, KeyCols(params.dedup_strategy))) =>
       \A q \in 1..Len(pre.rows) :
         (\E n \in 1..Len(KeyCols(params.dedup_strategy)) :
            KeyOf(pre, q, params.dedup_strategy)[n] = NaN)
         => \E i \in 1..Len(merged_df.rows) : merged_df.rows[i] = pre.rows[q]
====
